---- MODULE Spec2Model ----
\* Model of rust_decoder/src/main.rs: the hex codec, the discriminator
\* extractor, the Crafting account path, the Sage instruction path, and the
\* steps of main from argument check to the printed envelope.
EXTENDS Integers, Sequences, FiniteSets

VARIABLES argv, pc, is_instruction, data, output, stdout, stderr, exit_code, called

vars == <<argv, pc, is_instruction, data, output, stdout, stderr, exit_code, called>>

\* ------------------------------------------------------------------ bounds
MaxLen == 3       \* longest free-form first argument, in characters
MaxBuf == 9       \* longest byte buffer given as well-formed hex text

\* --------------------------------------------------------------- constants
DiscLen == 8      \* width of the discriminator
Radix == 16
UsageExit == 2
HexExit == 3
PanicExit == 101  \* exit status of a Rust process whose main thread panicked
NoExit == -1      \* the process has not exited yet
PayloadLen == 1   \* shortest payload the modelled variants deserialize from

\* ------------------------------------------------------------- characters
\* A string is a sequence of characters; "E9" stands for U+00E9, whose UTF-8
\* encoding is two bytes, every other character of the model is one byte.
Wide == "E9"
Chars == {"0", "1", "a", "A", "x", "g", "+", "-", " ", Wide}
HexLower == <<"0","1","2","3","4","5","6","7","8","9","a","b","c","d","e","f">>
HexUpper == <<"0","1","2","3","4","5","6","7","8","9","A","B","C","D","E","F">>

Utf8Len(c) == IF c = Wide THEN 2 ELSE 1

RECURSIVE Utf8(_)
\* The bytes of a string: one record per byte, k the byte's index inside its
\* character (k = 1 starts a character).
Utf8(s) ==
  IF s = <<>> THEN <<>>
  ELSE (IF Utf8Len(Head(s)) = 2
          THEN <<[ch |-> Head(s), k |-> 1], [ch |-> Head(s), k |-> 2]>>
          ELSE <<[ch |-> Head(s), k |-> 1]>>) \o Utf8(Tail(s))

\* str::is_char_boundary, i counted from 0 as in Rust
IsCharBoundary(b, i) ==
  \/ i = 0
  \/ i = Len(b)
  \/ (i > 0 /\ i < Len(b) /\ b[i + 1].k = 1)

IsWs(c) == c = " "

RECURSIVE TrimStart(_)
TrimStart(s) == IF s # <<>> /\ IsWs(Head(s)) THEN TrimStart(Tail(s)) ELSE s

RECURSIVE TrimEnd(_)
TrimEnd(s) ==
  IF s # <<>> /\ IsWs(s[Len(s)]) THEN TrimEnd(SubSeq(s, 1, Len(s) - 1)) ELSE s

\* str::trim
Trim(s) == TrimEnd(TrimStart(s))

\* char::to_digit(16); -1 stands for None
ToDigit(c) ==
  IF \E i \in 1..Radix : HexLower[i] = c
    THEN (CHOOSE i \in 1..Radix : HexLower[i] = c) - 1
  ELSE IF \E i \in 1..Radix : HexUpper[i] = c
    THEN (CHOOSE i \in 1..Radix : HexUpper[i] = c) - 1
  ELSE -1

IsHexDigit(c) == ToDigit(c) >= 0

\* u8::from_str_radix(src, 16) on a non-empty slice given as its characters:
\* a lone sign is an error, a leading '+' is skipped, a leading '-' is left
\* among the digits of an unsigned type, every remaining character must be a
\* digit, and the value must fit a u8.
FromStrRadix(src) ==
  LET digits == IF Len(src) > 1 /\ src[1] = "+" THEN Tail(src) ELSE src
      lone == Len(src) = 1 /\ src[1] \in {"+", "-"}
      val == IF Len(digits) = 2
               THEN Radix * ToDigit(digits[1]) + ToDigit(digits[2])
               ELSE ToDigit(digits[1])
  IN IF src = <<>> \/ lone \/ \E i \in 1..Len(digits) : ~IsHexDigit(digits[i])
       THEN [ok |-> FALSE, val |-> 0]
     ELSE IF val > 255 THEN [ok |-> FALSE, val |-> 0]
     ELSE [ok |-> TRUE, val |-> val]

\* The characters of the byte slice b[i..i+2] (i from 0), both ends on
\* character boundaries.
SliceChars(b, i) ==
  IF b[i + 1].ch = Wide THEN <<b[i + 1].ch>> ELSE <<b[i + 1].ch, b[i + 2].ch>>

RECURSIVE CollectPairs(_, _, _)
\* The lazy map/collect of hex_to_bytes: pairs are taken in order; a slice
\* that does not end on a character boundary panics, the first pair that does
\* not parse ends the collection with None.
CollectPairs(b, i, acc) ==
  IF i >= Len(b) THEN [tag |-> "Some", bytes |-> acc]
  ELSE IF ~(IsCharBoundary(b, i) /\ IsCharBoundary(b, i + 2))
    THEN [tag |-> "Panic", bytes |-> <<>>]
  ELSE LET r == FromStrRadix(SliceChars(b, i))
       IN IF ~r.ok THEN [tag |-> "None", bytes |-> <<>>]
          ELSE CollectPairs(b, i + 2, Append(acc, r.val))

StartsWith0x(s) == Len(s) >= 2 /\ s[1] = "0" /\ s[2] = "x"

hex_to_bytes_noprefix(s) ==
  LET b == Utf8(Trim(s))
  IN IF Len(b) % 2 # 0 THEN [tag |-> "None", bytes |-> <<>>]
     ELSE CollectPairs(b, 0, <<>>)

hex_to_bytes(s) ==
  LET t == Trim(s)
      hex == IF StartsWith0x(t) THEN SubSeq(t, 3, Len(t)) ELSE t
      b == Utf8(hex)
  IN IF Len(b) % 2 # 0 THEN [tag |-> "None", bytes |-> <<>>]
     ELSE CollectPairs(b, 0, <<>>)

\* ------------------------------------------------- discriminator extractor
extract_discriminator_off_by_one(d) ==
  IF Len(d) <= DiscLen THEN [some |-> FALSE, disc |-> <<>>]
  ELSE [some |-> TRUE, disc |-> SubSeq(d, 1, DiscLen)]

extract_discriminator(d) ==
  IF Len(d) < DiscLen THEN [some |-> FALSE, disc |-> <<>>]
  ELSE [some |-> TRUE, disc |-> SubSeq(d, 1, DiscLen)]

\* ------------------------------------------------ Crafting program decoder
\* The variants of CraftingAccount, in the order main.rs matches them.
Variants == <<"CraftableItem", "CraftingFacility", "CraftingProcess",
              "Domain", "Recipe", "RecipeCategory">>

\* The registry of the Crafting decoder: variant k is keyed by the
\* discriminator whose k-th byte is 1 and whose other bytes are 0.
Discriminator(k) == [i \in 1..DiscLen |-> IF i = k THEN 1 ELSE 0]

Lookup(disc) == {k \in 1..Len(Variants) : Discriminator(k) = disc}

\* What the registry makes of a buffer: "NoMatch" (too short, or unknown
\* discriminator), "Malformed" (known discriminator, payload too short for
\* the variant), "Decoded".
DecodeCase(d) ==
  LET x == extract_discriminator(d)
  IN IF ~x.some THEN "NoMatch"
     ELSE IF Lookup(x.disc) = {} THEN "NoMatch"
     ELSE IF Len(d) - DiscLen < PayloadLen THEN "Malformed"
     ELSE "Decoded"

MatchedVariant(d) == Variants[CHOOSE k \in Lookup(extract_discriminator(d).disc) : TRUE]

\* AccountDecoder::decode_account as main.rs sees it: an Option, Some only
\* for a fully deserialized variant.
decode_account(d) ==
  IF DecodeCase(d) = "Decoded"
    THEN [some |-> TRUE, variant |-> MatchedVariant(d),
          value |-> SubSeq(d, DiscLen + 1, Len(d))]
  ELSE [some |-> FALSE, variant |-> "", value |-> <<>>]

Null == "null"

NoneDoc == [decoded |-> Null, program |-> "Crafting"]

decode_crafting_account(d) ==
  LET r == decode_account(d)
  IN IF r.some
       THEN [kind |-> r.variant, program |-> "Crafting", value |-> r.value]
     ELSE NoneDoc

\* ---------------------------------------------------- structured text (JSON)
\* serde_json::from_str restricted to the texts the model feeds it: objects
\* whose members are strings, numbers and objects, integers, and whitespace
\* around tokens.  A result is [ok, end, val]; val is [t, v].
JFail == [ok |-> FALSE, end |-> 0, val |-> [t |-> "none", v |-> 0]]

Digits == {"0", "1", "2", "3", "4", "5", "6", "7", "8", "9"}

RECURSIVE SkipWs(_, _)
SkipWs(s, i) == IF i <= Len(s) /\ IsWs(s[i]) THEN SkipWs(s, i + 1) ELSE i

ParseStr(s, i) ==
  LET closes == {j \in (i + 1)..Len(s) : s[j] = "\""}
      j == CHOOSE c \in closes : \A o \in closes : c <= o
  IN IF closes = {} THEN JFail
     ELSE [ok |-> TRUE, end |-> j + 1,
           val |-> [t |-> "str", v |-> SubSeq(s, i + 1, j - 1)]]

RECURSIVE DigitRun(_, _)
\* the index after the run of digits that starts at i
DigitRun(s, i) == IF i <= Len(s) /\ s[i] \in Digits THEN DigitRun(s, i + 1) ELSE i

RECURSIVE NumVal(_, _, _)
NumVal(s, i, e) == IF i >= e THEN 0 ELSE NumVal(s, i, e - 1) * 10 + ToDigit(s[e - 1])

ParseNum(s, i) ==
  LET neg == s[i] = "-"
      st == IF neg THEN i + 1 ELSE i
      e == IF st <= Len(s) /\ s[st] = "0" THEN st + 1 ELSE DigitRun(s, st)
      n == NumVal(s, st, e)
  IN IF e = st THEN JFail
     ELSE [ok |-> TRUE, end |-> e,
           val |-> [t |-> "num", v |-> IF neg THEN 0 - n ELSE n]]

RECURSIVE ParseValue(_, _)
RECURSIVE ParseMembers(_, _, _)

ParseMembers(s, i, acc) ==
  IF i > Len(s) \/ s[i] # "\"" THEN JFail
  ELSE LET k == ParseStr(s, i)
           c == SkipWs(s, k.end)
           v == ParseValue(s, SkipWs(s, c + 1))
           d == SkipWs(s, v.end)
           obj == [x \in DOMAIN acc \cup {k.val.v} |->
                     IF x = k.val.v THEN v.val ELSE acc[x]]
       IN IF ~k.ok THEN JFail
          ELSE IF c > Len(s) \/ s[c] # ":" THEN JFail
          ELSE IF ~v.ok THEN JFail
          ELSE IF d > Len(s) THEN JFail
          ELSE IF s[d] = "," THEN ParseMembers(s, SkipWs(s, d + 1), obj)
          ELSE IF s[d] = "}"
            THEN [ok |-> TRUE, end |-> d + 1, val |-> [t |-> "obj", v |-> obj]]
          ELSE JFail

ParseValue(s, i) ==
  IF i > Len(s) THEN JFail
  ELSE IF s[i] = "{"
    THEN LET j == SkipWs(s, i + 1)
         IN IF j <= Len(s) /\ s[j] = "}"
              THEN [ok |-> TRUE, end |-> j + 1, val |-> [t |-> "obj", v |-> <<>>]]
            ELSE ParseMembers(s, j, <<>>)
  ELSE IF s[i] = "\"" THEN ParseStr(s, i)
  ELSE IF s[i] \in Digits \cup {"-"} THEN ParseNum(s, i)
  ELSE JFail

\* serde_json::from_str::<Value>: one value, nothing but whitespace after it
from_str(s) ==
  LET v == ParseValue(s, SkipWs(s, 1))
  IN IF v.ok /\ SkipWs(s, v.end) = Len(s) + 1 THEN v ELSE JFail

ProgramIdKey == <<"p", "r", "o", "g", "r", "a", "m", "I", "d">>

\* instr_obj.get("programId").and_then(|v| v.as_str())
GetProgramId(val) ==
  IF val.t = "obj" /\ ProgramIdKey \in DOMAIN val.v /\ val.v[ProgramIdKey].t = "str"
    THEN [some |-> TRUE, id |-> val.v[ProgramIdKey].v]
  ELSE [some |-> FALSE, id |-> <<>>]

InvalidInstructionDoc ==
  [decoded |-> Null, program |-> "Unknown", error |-> "Invalid instruction format"]

decode_sage_instruction_shapeless(hex) ==
  [program |-> "Unknown", error |-> "Invalid instruction format"]

decode_sage_instruction(hex) ==
  LET r == from_str(hex)
  IN IF r.ok /\ GetProgramId(r.val).some
       THEN [kind |-> "SageInstruction", program |-> "Sage-Starbased",
             programId |-> GetProgramId(r.val).id, parsed |-> TRUE,
             value |-> r.val]
     ELSE InvalidInstructionDoc

\* ------------------------------------------------------------------ inputs
ByteVals == {0, 1}

Buffers == UNION {[1..n -> ByteVals] : n \in 0..MaxBuf}

RECURSIVE BytesToHex(_)
\* lower-case hex text of a byte buffer, two digits per byte
BytesToHex(bs) ==
  IF bs = <<>> THEN <<>>
  ELSE <<HexLower[(Head(bs) \div Radix) + 1], HexLower[(Head(bs) % Radix) + 1]>>
         \o BytesToHex(Tail(bs))

\* free-form first arguments
ShortStrings == UNION {[1..n -> Chars] : n \in 0..MaxLen}

\* well-formed hex text of every buffer: bare, prefixed, prefixed inside
\* boundary whitespace
HexTexts ==
  UNION {{BytesToHex(b), <<"0", "x">> \o BytesToHex(b),
          <<" ">> \o <<"0", "x">> \o BytesToHex(b) \o <<" ">>} : b \in Buffers}

\* {"programId":"S1","data":"00"}
JsonWithProgramId ==
  <<"{", "\"">> \o ProgramIdKey \o <<"\"", ":", "\"", "S", "1", "\"", ",",
    "\"", "d", "a", "t", "a", "\"", ":", "\"", "0", "0", "\"", "}">>

\* {"data":"00"}
JsonWithoutProgramId ==
  <<"{", "\"", "d", "a", "t", "a", "\"", ":", "\"", "0", "0", "\"", "}">>

\* {"programId":10}
JsonNumericProgramId == <<"{", "\"">> \o ProgramIdKey \o <<"\"", ":", "1", "0", "}">>

JsonTexts == {JsonWithProgramId, JsonWithoutProgramId, JsonNumericProgramId}

HexArgs == ShortStrings \cup HexTexts \cup JsonTexts

InstructionFlag == "--instruction"
OtherFlag == "--verbose"

\* what may follow the hex argument on the command line
Tails == {<<>>, <<InstructionFlag>>, <<OtherFlag>>, <<OtherFlag, InstructionFlag>>}

Program == "carbon_crafting_decoder"

\* env::args(): the program name, then the arguments
ArgVectors == {<<Program>>} \cup {<<Program, h>> \o tl : h \in HexArgs, tl \in Tails}

\* args[i], i counted from 0 as in Rust
Arg(i) == argv[i + 1]

Hex == Arg(1)

\* --------------------------------------------------------------------- main
Init ==
  /\ argv \in ArgVectors
  /\ pc = "start"
  /\ is_instruction = FALSE
  /\ data = <<>>
  /\ output = <<>>
  /\ stdout = <<>>
  /\ stderr = <<>>
  /\ exit_code = NoExit
  /\ called = {}

\* args.len() < 2: usage text to the error stream, exit(2)
UsageError ==
  /\ pc = "start"
  /\ Len(argv) < 2
  /\ stderr' = Append(stderr, "Usage")
  /\ exit_code' = UsageExit
  /\ pc' = "exited"
  /\ UNCHANGED <<argv, is_instruction, data, output, stdout, called>>

IsInstructionAnyFlag(a) == Len(a) > 2

\* args.len() > 2 && args[2] == "--instruction"
IsInstruction(a) == Len(a) > 2 /\ a[3] = InstructionFlag

ReadArgs ==
  /\ pc = "start"
  /\ Len(argv) >= 2
  /\ is_instruction' = IsInstruction(argv)
  /\ pc' = "hex"
  /\ UNCHANGED <<argv, data, output, stdout, stderr, exit_code, called>>

\* hex_to_bytes(hex) returned Some(d)
HexOk ==
  /\ pc = "hex"
  /\ hex_to_bytes(Hex).tag = "Some"
  /\ called' = called \cup {"hex_to_bytes"}
  /\ data' = hex_to_bytes(Hex).bytes
  /\ pc' = "dispatch"
  /\ UNCHANGED <<argv, is_instruction, output, stdout, stderr, exit_code>>

\* hex_to_bytes(hex) returned None: message to the error stream, exit(3)
HexInvalid ==
  /\ pc = "hex"
  /\ hex_to_bytes(Hex).tag = "None"
  /\ called' = called \cup {"hex_to_bytes"}
  /\ stderr' = Append(stderr, "Invalid hex input")
  /\ exit_code' = HexExit
  /\ pc' = "exited"
  /\ UNCHANGED <<argv, is_instruction, data, output, stdout>>

\* hex_to_bytes(hex) sliced inside a character: the thread panics
HexPanic ==
  /\ pc = "hex"
  /\ hex_to_bytes(Hex).tag = "Panic"
  /\ called' = called \cup {"hex_to_bytes"}
  /\ stderr' = Append(stderr, "panic")
  /\ exit_code' = PanicExit
  /\ pc' = "panicked"
  /\ UNCHANGED <<argv, is_instruction, data, output, stdout>>

\* the account branch of main: the Crafting result is kept when it has a
\* "decoded" or a "kind" key, and replaced otherwise
AccountOutput(d) ==
  LET crafting_result == decode_crafting_account(d)
  IN IF "decoded" \in DOMAIN crafting_result \/ "kind" \in DOMAIN crafting_result
       THEN crafting_result
     ELSE [decoded |-> Null, error |-> "Unable to decode account"]

DispatchInstruction ==
  /\ pc = "dispatch"
  /\ is_instruction
  /\ called' = called \cup {"decode_sage_instruction"}
  /\ output' = decode_sage_instruction(Hex)
  /\ pc' = "print"
  /\ UNCHANGED <<argv, is_instruction, data, stdout, stderr, exit_code>>

DispatchAccount ==
  /\ pc = "dispatch"
  /\ ~is_instruction
  /\ called' = called \cup {"decode_crafting_account"}
  /\ output' = AccountOutput(data)
  /\ pc' = "print"
  /\ UNCHANGED <<argv, is_instruction, data, stdout, stderr, exit_code>>

\* println!(to_string_pretty(&output)), then main returns
PrintOutput ==
  /\ pc = "print"
  /\ stdout' = Append(stdout, output)
  /\ exit_code' = 0
  /\ pc' = "exited"
  /\ UNCHANGED <<argv, is_instruction, data, output, stderr, called>>

Next ==
  \/ UsageError
  \/ ReadArgs
  \/ HexOk
  \/ HexInvalid
  \/ HexPanic
  \/ DispatchInstruction
  \/ DispatchAccount
  \/ PrintOutput

Spec == Init /\ [][Next]_vars

Terminated == pc \in {"exited", "panicked"}

TypeOK ==
  /\ pc \in {"start", "hex", "dispatch", "print", "exited", "panicked"}
  /\ exit_code \in {NoExit, 0, UsageExit, HexExit, PanicExit}
  /\ is_instruction \in BOOLEAN
  /\ Len(stdout) <= 1

\* ------------------------------------------------------------------ claims
\* the run is past hex validation with bytes in hand
Validated == pc \in {"dispatch", "print"} \/ (pc = "exited" /\ exit_code = 0)

HasArg == Len(argv) >= 2

FlagGiven == Len(argv) > 2 /\ Arg(2) = InstructionFlag

\* the first argument without boundary whitespace and one leading "0x"
Stripped(s) == LET t == Trim(s) IN IF StartsWith0x(t) THEN SubSeq(t, 3, Len(t)) ELSE t

\* an even number of characters, every one a hex digit
AllHexPairs(h) == Len(h) % 2 = 0 /\ \A i \in 1..Len(h) : IsHexDigit(h[i])

LowerChar(c) ==
  IF \E i \in 1..Radix : HexUpper[i] = c
    THEN HexLower[CHOOSE i \in 1..Radix : HexUpper[i] = c]
  ELSE c

Lower(h) == [i \in 1..Len(h) |-> LowerChar(h[i])]

IsDecodedShape(doc) ==
  {"kind", "program", "value"} \subseteq DOMAIN doc /\ "decoded" \notin DOMAIN doc

IsNullShape(doc) ==
  "decoded" \in DOMAIN doc /\ doc.decoded = Null /\ "kind" \notin DOMAIN doc

\* C1: in account mode, a valid hex input that the Crafting decoder does not
\* recognize ends with exactly the document
\* {"decoded": null, "error": "Unable to decode account"} on standard output
\* and exit code 0.
C1_UnableToDecodeDocument ==
  (/\ pc = "exited"
   /\ HasArg
   /\ ~FlagGiven
   /\ hex_to_bytes(Hex).tag = "Some"
   /\ ~decode_account(hex_to_bytes(Hex).bytes).some)
  => /\ exit_code = 0
     /\ Len(stdout) = 1
     /\ DOMAIN stdout[1] = {"decoded", "error"}
     /\ stdout[1].decoded = Null
     /\ stdout[1].error = "Unable to decode account"

\* C2: in instruction mode, a first argument that is structured text with a
\* string field "programId" ends with a printed envelope of kind
\* "SageInstruction", program "Sage-Starbased", the programId echoed and the
\* parsed object under "value".
C2_SageInstructionEnvelope ==
  (/\ Terminated
   /\ FlagGiven
   /\ from_str(Hex).ok
   /\ GetProgramId(from_str(Hex).val).some)
  => /\ Len(stdout) = 1
     /\ {"kind", "program", "programId", "value"} \subseteq DOMAIN stdout[1]
     /\ stdout[1].kind = "SageInstruction"
     /\ stdout[1].program = "Sage-Starbased"
     /\ stdout[1].programId = GetProgramId(from_str(Hex).val).id
     /\ stdout[1].value = from_str(Hex).val

\* C3: for every first argument no step panics: a run ends by printing one
\* envelope or by one of the error exits 2 and 3.
C3_NoPanic ==
  /\ pc # "panicked"
  /\ Terminated =>
       \/ (exit_code = 0 /\ Len(stdout) = 1)
       \/ (exit_code \in {UsageExit, HexExit} /\ stdout = <<>>)

\* C4: hex_to_bytes returns None for every input of odd length after trimming
\* and prefix removal and for every input with a pair that is not two hex
\* digits, and returns bytes only when every pair is two hex digits.
C4_RejectsNonHexPairs ==
  ("hex_to_bytes" \in called)
  => /\ ~AllHexPairs(Stripped(Hex)) => (pc = "exited" /\ exit_code = HexExit)
     /\ Validated => AllHexPairs(Stripped(Hex))

\* C5: a buffer whose discriminator matches a registered variant and whose
\* payload does not deserialize yields an outcome that names the matched
\* variant and whose printed envelope differs from the no-match envelope.
C5_MalformedPayloadDistinct ==
  (/\ pc = "exited"
   /\ exit_code = 0
   /\ ~is_instruction
   /\ DecodeCase(data) = "Malformed")
  => /\ Len(stdout) = 1
     /\ stdout[1] # AccountOutput(<<>>)
     /\ \E k \in {"kind", "variant", "error"} \cap DOMAIN stdout[1] :
          stdout[1][k] = MatchedVariant(data)

\* C6: usage check, then hex validation, then dispatch: without a hex
\* argument the exit code is 2 and nothing else ran; with a hex argument that
\* hex_to_bytes rejects it is 3 and no decoder was called; in every other
\* case an envelope is printed and the exit code is 0; 0, 2, 3 are distinct.
C6_ExitCodes ==
  /\ Cardinality({0, UsageExit, HexExit}) = 3
  /\ Terminated =>
       /\ ~HasArg => (exit_code = UsageExit /\ called = {} /\ stdout = <<>>)
       /\ (HasArg /\ hex_to_bytes(Hex).tag = "None")
            => (exit_code = HexExit /\ called = {"hex_to_bytes"} /\ stdout = <<>>)
       /\ (HasArg /\ hex_to_bytes(Hex).tag # "None")
            => (exit_code = 0 /\ Len(stdout) = 1)
  /\ (called \cap {"decode_sage_instruction", "decode_crafting_account"} # {})
       => "hex_to_bytes" \in called

\* C7: for an even number of hex digits, with or without "0x" and boundary
\* whitespace, hex_to_bytes succeeds with one byte per pair, in order, each
\* the base-16 value of its pair; re-encoding gives the digits back up to
\* case; case and prefix do not change the bytes.
C7_HexRoundTrip ==
  ("hex_to_bytes" \in called /\ AllHexPairs(Stripped(Hex)))
  => LET h == Stripped(Hex)
     IN /\ Validated
        /\ Len(data) * 2 = Len(h)
        /\ \A i \in 1..Len(data) :
             data[i] = Radix * ToDigit(h[2 * i - 1]) + ToDigit(h[2 * i])
        /\ BytesToHex(data) = Lower(h)
        /\ hex_to_bytes(Lower(h)) = [tag |-> "Some", bytes |-> data]
        /\ hex_to_bytes(h) = [tag |-> "Some", bytes |-> data]
        /\ hex_to_bytes(<<"0", "x">> \o h) = [tag |-> "Some", bytes |-> data]

C7_Witness ==
  /\ pc = "dispatch"
  /\ Len(Hex) > 0
  /\ Hex[1] = " "
  /\ StartsWith0x(Trim(Hex))
  /\ Len(data) >= 2

\* C8: for a buffer of fewer than 8 bytes extract_discriminator returns None
\* and account decoding ends with a printed no-match envelope and exit code
\* 0, never a Decoded envelope; for 8 or more bytes extract_discriminator
\* returns a copy of the first 8 bytes.
C8_ShortBufferNoMatch ==
  Validated
  => LET x == extract_discriminator(data)
     IN /\ Len(data) < DiscLen => ~x.some
        /\ Len(data) >= DiscLen =>
             (x.some /\ Len(x.disc) = DiscLen /\ \A i \in 1..DiscLen : x.disc[i] = data[i])
        /\ (Len(data) < DiscLen /\ ~is_instruction /\ pc \in {"print", "exited"})
             => IsNullShape(output)
        /\ (Len(data) < DiscLen /\ ~is_instruction /\ pc = "exited")
             => (exit_code = 0 /\ stdout = <<output>> /\ ~IsDecodedShape(stdout[1]))

C8_Witness ==
  /\ pc = "exited"
  /\ ~is_instruction
  /\ Len(data) > 0
  /\ Len(data) < DiscLen
  /\ Len(stdout) = 1

\* C9: an invocation writes at most one document, exactly one if and only if
\* it exits with code 0; every document has either the keys kind, program and
\* value and no decoded key, or decoded: null and no kind key, never both and
\* never neither.
C9_OneDocumentOneShape ==
  /\ Len(stdout) <= 1
  /\ Terminated => (Len(stdout) = 1 <=> exit_code = 0)
  /\ ~Terminated => stdout = <<>>
  /\ \A i \in 1..Len(stdout) :
       IsDecodedShape(stdout[i]) # IsNullShape(stdout[i])

C9_Witness ==
  /\ pc = "exited"
  /\ Len(stdout) = 1
  /\ IsDecodedShape(stdout[1])

====
